---- MODULE Spec2Model ----
(***************************************************************************)
(* Model of the ASL recognizer utilities:                                  *)
(*   my_recognizer.recognize            (specification SpecRec)            *)
(*   my_model_selectors.SelectorBIC     (specification SpecBIC)            *)
(*   my_model_selectors.SelectorDIC     (specification SpecDIC)            *)
(*   my_model_selectors.SelectorCV      (specification SpecCV)             *)
(* Words are numbered 1..n, Python's None is 0.  Log likelihoods are       *)
(* integers (fixed point); float("-inf") is NegInf, a value below every    *)
(* other score, so that ">" and "<" against it behave as for floats.       *)
(* The external HMM routine (fit / score) is a nondeterministic choice of  *)
(* an outcome: it raises, or it yields a log likelihood.                   *)
(***************************************************************************)
EXTENDS Integers, Sequences, FiniteSets, TLC

\* ---------------------------------------------------------------- bounds
MaxWords == 2      \* words in the models dict of recognize
MaxItems == 2      \* items of the test set
MaxN == 4          \* largest max_n_components tried
MaxSeqs == 2       \* sequences of this_word
MaxFrames == 5     \* frames of one sequence
MaxFeatures == 2   \* features per frame
MaxDicN == 3       \* largest max_n_components tried by SelectorDIC
MaxDicWords == 3   \* words of the training set seen by SelectorDIC

\* ------------------------------------------------------- program constants
None == 0
NegInf == -1000000
PosInf == 1000000
FailScore == -1000
min_n_components == 2

\* ------------------------------------------------------------ shared helpers
Range(s) == {s[k] : k \in 1..Len(s)}

\* the keys of a dict of k words in iteration order (words are numbered in
\* that order)
DictKeys(k) == [j \in 1..k |-> j]

\* outcome of one call into the HMM routine
Ok(v) == [kind |-> "ok", val |-> v]
Raised == [kind |-> "raise", val |-> 0]

\* the log likelihoods model.score can return in recognize
RecScoreVals == {NegInf, -2000, -5}
RecOutcomes == {Ok(v) : v \in RecScoreVals} \cup {Raised}

VARIABLES
    \* ---- recognize
    models,         \* the models dict: its words in iteration order
    n_items,        \* number of items of the test set (word_ids 0..n_items-1)
    rec_pc,         \* "item" | "word" | "done" | "idle"
    word_id,        \* the word_id of the item the outer loop is at
    widx,           \* how many entries of models the inner loop has visited
    prob_map, max_prob, best_word, probabilities, guesses,
    outcomes,       \* history: <<word_id, word>> -> what model.score did
    prob_ids,       \* history: word_id in scope at each probabilities.append
    guess_ids       \* history: word_id in scope at each guesses.append

    ,
    \* ---- the selectors (one select() call)
    sel_pc,         \* "loop" | "others" | "folds" | "done" | "raised" | "idle"
    max_n,          \* self.max_n_components
    lengths,        \* self.lengths: frames of each sequence of this_word
    n_features,     \* len(self.X[0])
    oracle,         \* what fit/score do for each candidate n (the failure pattern)
    i,              \* the loop variable: the candidate number of states
    hmm_model, best_model, best_score, best_num_components,
    result,         \* what select returned
    scores,         \* history: candidate n -> the score the selector computed for it
    words,          \* self.words: the training words in iteration order
    first_len,      \* word -> self.hwords[word][1][0]
    sidx,           \* how many entries the inner loop (words / folds) has visited
    this_model_score, other_model_scores, m_count,
    total_score

recVars == <<models, n_items, rec_pc, word_id, widx, prob_map, max_prob, best_word,
             probabilities, guesses, outcomes, prob_ids, guess_ids>>

selVars == <<sel_pc, max_n, lengths, n_features, oracle, i, hmm_model, best_model,
             best_score, best_num_components, result, scores, words, first_len, sidx,
             this_model_score, other_model_scores, m_count, total_score>>

vars == <<recVars, selVars>>

\* a GaussianHMM fitted for a word with n states; NoModel is None / unassigned
Model(w, n) == [word |-> w, n_components |-> n]
NoModel == Model(None, 0)
Unbound == Model(None, -1)

EmptyMap == [w \in {} |-> 0]

\* ================================================================ recognize
\* test_set.get_all_Xlengths().keys(): the word_ids in ascending order
all_lengths_keys == [k \in 1..n_items |-> k - 1]

SelIdle ==
    /\ sel_pc = "idle"
    /\ max_n = 0
    /\ lengths = <<>>
    /\ n_features = 0
    /\ oracle = EmptyMap
    /\ i = 0
    /\ hmm_model = Unbound
    /\ best_model = NoModel
    /\ best_score = 0
    /\ best_num_components = 0
    /\ result = NoModel
    /\ scores = EmptyMap
    /\ words = <<>>
    /\ first_len = EmptyMap
    /\ sidx = 0
    /\ this_model_score = 0
    /\ other_model_scores = 0
    /\ m_count = 0
    /\ total_score = 0

RecInit ==
    /\ SelIdle
    /\ models \in {DictKeys(k) : k \in 0..MaxWords}
    /\ n_items \in 0..MaxItems
    /\ rec_pc = "item"
    /\ word_id = -1
    /\ widx = 0
    /\ prob_map = EmptyMap
    /\ max_prob = NegInf
    /\ best_word = None
    /\ probabilities = <<>>
    /\ guesses = <<>>
    /\ outcomes = [p \in {} |-> Raised]
    /\ prob_ids = <<>>
    /\ guess_ids = <<>>

\* variant: the handler records 0 for a raising model
ScoreOf_Zero(o) == IF o.kind = "raise" THEN 0 ELSE o.val

\* try: score = model.score(..)  except Exception: score = -1000
ScoreOf(o) == IF o.kind = "raise" THEN FailScore ELSE o.val

\* for word_id in all_lengths.keys(): prob_map = dict(); max_prob = -inf
RecItemStart ==
    /\ rec_pc = "item"
    /\ Len(probabilities) < n_items
    /\ word_id' = all_lengths_keys[Len(probabilities) + 1]
    /\ prob_map' = EmptyMap
    /\ max_prob' = NegInf
    /\ widx' = 0
    /\ rec_pc' = "word"
    /\ UNCHANGED <<models, n_items, best_word, probabilities, guesses, outcomes,
                   prob_ids, guess_ids>>
    /\ UNCHANGED selVars

\* one iteration of: for word, model in models.items()
RecScoreWord ==
    /\ rec_pc = "word"
    /\ widx < Len(models)
    /\ \E o \in RecOutcomes :
         LET word == models[widx + 1]
             score == ScoreOf(o)
         IN /\ outcomes' = [p \in DOMAIN outcomes \cup {<<word_id, word>>} |->
                               IF p = <<word_id, word>> THEN o ELSE outcomes[p]]
            /\ prob_map' = [w \in DOMAIN prob_map \cup {word} |->
                               IF w = word THEN score ELSE prob_map[w]]
            /\ IF score > max_prob
               THEN max_prob' = score /\ best_word' = word
               ELSE UNCHANGED <<max_prob, best_word>>
    /\ widx' = widx + 1
    /\ UNCHANGED <<models, n_items, rec_pc, word_id, probabilities, guesses,
                   prob_ids, guess_ids>>
    /\ UNCHANGED selVars

\* variant: a guess is appended only when some word was chosen
RecItemEnd_GuessIfAny ==
    /\ rec_pc = "word"
    /\ widx = Len(models)
    /\ probabilities' = Append(probabilities, prob_map)
    /\ prob_ids' = Append(prob_ids, word_id)
    /\ IF best_word # None
       THEN guesses' = Append(guesses, best_word) /\ guess_ids' = Append(guess_ids, word_id)
       ELSE UNCHANGED <<guesses, guess_ids>>
    /\ rec_pc' = "item"
    /\ UNCHANGED <<models, n_items, word_id, widx, prob_map, max_prob, best_word, outcomes>>
    /\ UNCHANGED selVars

\* probabilities.append(prob_map); guesses.append(best_word)
RecItemEnd ==
    /\ rec_pc = "word"
    /\ widx = Len(models)
    /\ probabilities' = Append(probabilities, prob_map)
    /\ guesses' = Append(guesses, best_word)
    /\ prob_ids' = Append(prob_ids, word_id)
    /\ guess_ids' = Append(guess_ids, word_id)
    /\ rec_pc' = "item"
    /\ UNCHANGED <<models, n_items, word_id, widx, prob_map, max_prob, best_word, outcomes>>
    /\ UNCHANGED selVars

\* return probabilities, guesses
RecReturn ==
    /\ rec_pc = "item"
    /\ Len(probabilities) = n_items
    /\ rec_pc' = "done"
    /\ UNCHANGED <<models, n_items, word_id, widx, prob_map, max_prob, best_word,
                   probabilities, guesses, outcomes, prob_ids, guess_ids>>
    /\ UNCHANGED selVars

RecNext == RecItemStart \/ RecScoreWord \/ RecItemEnd \/ RecReturn

SpecRec == RecInit /\ [][RecNext]_vars

\* recognize called with at least one trained model
RecInitNonEmpty == RecInit /\ models # <<>>

SpecRecNonEmpty == RecInitNonEmpty /\ [][RecNext]_vars

\* ---------------------------------------------------------- recognize: claims

\* C1: recognize returns probabilities and guesses with exactly one entry per
\* test item each, both in the order of the test set's word_id, so that entry k
\* of either list belongs to the same test item (word_id k, counting from 0):
\* probabilities[k] holds the scores recorded for that item.
C1_ListsAligned ==
    /\ Len(probabilities) = Len(guesses)
    /\ prob_ids = guess_ids
    /\ rec_pc = "done" =>
         /\ Len(probabilities) = n_items
         /\ Len(guesses) = n_items
         /\ prob_ids = all_lengths_keys
         /\ guess_ids = all_lengths_keys
         /\ \A k \in 1..n_items : \A w \in DOMAIN probabilities[k] :
               /\ <<k - 1, w>> \in DOMAIN outcomes
               /\ probabilities[k][w] = ScoreOf(outcomes[<<k - 1, w>>])

C1_Witness ==
    /\ rec_pc = "done"
    /\ n_items = MaxItems
    /\ Len(models) = MaxWords
    /\ Len(guesses) = MaxItems
    /\ guesses[1] = None

\* C2: for every test item k, guesses[k] is a key of probabilities[k] whose
\* recorded score is at least the score of every other word of probabilities[k].
C2_GuessIsBest ==
    rec_pc = "done" =>
        \A k \in 1..Len(guesses) :
            /\ guesses[k] \in DOMAIN probabilities[k]
            /\ \A w \in DOMAIN probabilities[k] :
                  probabilities[k][guesses[k]] >= probabilities[k][w]

\* C7: a raising score call neither aborts recognition nor drops the word: at
\* return every item k has, for every word w of models, the key w in
\* probabilities[k], valued with the log likelihood score returned, or with
\* -1000 when the call raised; every (item, word) pair was scored.
C7_RaiseRecordedAsFailScore ==
    rec_pc = "done" =>
        /\ Len(probabilities) = n_items
        /\ \A k \in 1..n_items : \A w \in Range(models) :
              /\ <<k - 1, w>> \in DOMAIN outcomes
              /\ w \in DOMAIN probabilities[k]
              /\ probabilities[k][w] =
                    (IF outcomes[<<k - 1, w>>].kind = "raise"
                     THEN -1000 ELSE outcomes[<<k - 1, w>>].val)

C7_Witness ==
    /\ rec_pc = "done"
    /\ n_items = MaxItems
    /\ Len(models) = MaxWords
    /\ outcomes[<<0, models[1]>>].kind = "raise"
    /\ outcomes[<<0, models[2]>>].kind = "ok"
    /\ outcomes[<<1, models[1]>>].kind = "ok"
    /\ probabilities[1][models[1]] = -1000

\* ============================================================== selectors
RecIdle ==
    /\ models = <<>>
    /\ n_items = 0
    /\ rec_pc = "idle"
    /\ word_id = -1
    /\ widx = 0
    /\ prob_map = EmptyMap
    /\ max_prob = NegInf
    /\ best_word = None
    /\ probabilities = <<>>
    /\ guesses = <<>>
    /\ outcomes = [p \in {} |-> Raised]
    /\ prob_ids = <<>>
    /\ guess_ids = <<>>

this_word == 1

\* what the HMM routine does for one candidate: fit raises, score raises, or
\* score yields a log likelihood (in hundredths)
FitRaise == [kind |-> "fit_raise", val |-> 0]
ScoreRaise == [kind |-> "score_raise", val |-> 0]
LogLVals == {-300, -100}
SelOutcomes == {Ok(v) : v \in LogLVals} \cup {FitRaise, ScoreRaise}

RECURSIVE SumSeq(_)
SumSeq(s) == IF s = <<>> THEN 0 ELSE s[1] + SumSeq(Tail(s))

\* math.log, in hundredths, rounded
LnTable == <<0, 69, 110, 139, 161, 179, 195, 208, 220, 230, 240, 248, 256, 264, 271,
             277, 283, 289, 294, 300, 304, 309, 314, 318, 322, 326, 330, 333, 337, 340>>
Ln100(n) == LnTable[n]

\* ============================================================ SelectorBIC
\* p = i * i + 2 * i * len(self.X[0]) - 1
BICParams(n, d) == n * n + 2 * n * d - 1

\* N = len(self.lengths)
BICDataPoints(ls) == Len(ls)

\* bic_score = -2 * logL + p * math.log(N)
BICScore(logL, n, d, ls) == -2 * logL + BICParams(n, d) * Ln100(BICDataPoints(ls))

\* if i >= self.lengths[0]: continue
BICSkips(n, ls) == n >= ls[1]

\* range(self.min_n_components, self.max_n_components + 1)
BICCandidates == min_n_components..max_n

BICInit ==
    /\ RecIdle
    /\ sel_pc = "loop"
    /\ max_n \in min_n_components..MaxN
    /\ lengths \in UNION {[1..k -> 1..MaxFrames] : k \in 1..MaxSeqs}
    /\ n_features \in 1..MaxFeatures
    /\ oracle \in [min_n_components..max_n -> SelOutcomes]
    /\ i = min_n_components
    /\ hmm_model = Unbound
    /\ best_model = NoModel
    /\ best_num_components = 0
    /\ best_score = PosInf
    /\ result = NoModel
    /\ scores = EmptyMap
    /\ words = <<>>
    /\ first_len = EmptyMap
    /\ sidx = 0
    /\ this_model_score = 0
    /\ other_model_scores = 0
    /\ m_count = 0
    /\ total_score = 0

\* except Exception: return None
BICOnException ==
    /\ result' = NoModel
    /\ sel_pc' = "done"
    /\ UNCHANGED <<i, hmm_model, best_model, best_score, best_num_components, scores>>

\* one iteration of the loop over the candidates
BICIter ==
    /\ sel_pc = "loop"
    /\ i \in BICCandidates
    /\ IF BICSkips(i, lengths)
       THEN /\ i' = i + 1
            /\ UNCHANGED <<sel_pc, hmm_model, best_model, best_score,
                           best_num_components, result, scores>>
       ELSE IF oracle[i].kind = "fit_raise"
       THEN BICOnException
       ELSE IF oracle[i].kind = "score_raise"
       THEN /\ result' = NoModel
            /\ sel_pc' = "done"
            /\ hmm_model' = Model(this_word, i)
            /\ UNCHANGED <<i, best_model, best_score, best_num_components, scores>>
       ELSE LET bic_score == BICScore(oracle[i].val, i, n_features, lengths)
            IN /\ hmm_model' = Model(this_word, i)
               /\ scores' = [n \in DOMAIN scores \cup {i} |->
                                IF n = i THEN bic_score ELSE scores[n]]
               /\ IF bic_score < best_score
                  THEN /\ best_score' = bic_score
                       /\ best_model' = Model(this_word, i)
                       /\ best_num_components' = i
                  ELSE UNCHANGED <<best_score, best_model, best_num_components>>
               /\ i' = i + 1
               /\ UNCHANGED <<sel_pc, result>>
    /\ UNCHANGED <<max_n, lengths, n_features, oracle>>
    /\ UNCHANGED <<words, first_len, sidx, this_model_score, other_model_scores, m_count,
                   total_score>>
    /\ UNCHANGED recVars

\* return best_model
BICReturn ==
    /\ sel_pc = "loop"
    /\ i \notin BICCandidates
    /\ result' = best_model
    /\ sel_pc' = "done"
    /\ UNCHANGED <<max_n, lengths, n_features, oracle, i, hmm_model, best_model,
                   best_score, best_num_components, scores>>
    /\ UNCHANGED <<words, first_len, sidx, this_model_score, other_model_scores, m_count,
                   total_score>>
    /\ UNCHANGED recVars

BICNext == BICIter \/ BICReturn

SpecBIC == BICInit /\ [][BICNext]_vars

\* -------------------------------------------------------- SelectorBIC: claims

\* the candidates of the range that can be fitted and scored
BICFittable == {n \in min_n_components..max_n : oracle[n].kind = "ok"}

\* C3: SelectorBIC.select returns the fitted model with the lowest BIC score
\* among the candidates n in min_n_components..max_n_components; whenever at
\* least one candidate of the range can be fitted and scored, the result is the
\* lowest-scoring of the candidates that can be fitted and scored.
C3_LowestBICReturned ==
    (sel_pc = "done" /\ BICFittable # {}) =>
        /\ result # NoModel
        /\ result.n_components \in BICFittable
        /\ \A n \in BICFittable :
              BICScore(oracle[result.n_components].val, result.n_components,
                       n_features, lengths)
                 <= BICScore(oracle[n].val, n, n_features, lengths)

\* C6: the BIC score computed for a candidate with n states over d features is
\* -2*logL + p*log(N) with p = n*n + 2*n*d - 1 and N the number of data points,
\* the sum of the sequence lengths of this_word.
C6_BICFormula ==
    \A n \in DOMAIN scores :
        scores[n] = -2 * oracle[n].val
                      + (n * n + 2 * n * n_features - 1) * Ln100(SumSeq(lengths))

\* ============================================================ SelectorDIC
RECURSIVE Fact(_)
Fact(n) == IF n <= 1 THEN 1 ELSE n * Fact(n - 1)

\* scores of SelectorDIC are kept multiplied by DicScale, so that the division
\* by m_count is exact
DicScale == Fact(MaxDicWords)

\* dic_score = this_model_score - (1 / m_count) * other_model_scores
DICScore(this, other, m) == DicScale * this - (DicScale \div m) * other

\* range(self.min_n_components, self.max_n_components + 1)
DICCandidates == min_n_components..max_n

\* what the selector computed for candidate n so far: the last dic_score, the
\* m_count it was computed with, whether every other word's score succeeded,
\* and whether the iteration ended in the exception handler
DicRec(dic, m, clean, aborted) == [dic |-> dic, m |-> m, clean |-> clean, aborted |-> aborted]

Put(f, k, v) == [x \in DOMAIN f \cup {k} |-> IF x = k THEN v ELSE f[x]]

\* self.words with M words: this_word at position p, the other words around it
\* in iteration order
WordOrder(M, p) ==
    [j \in 1..M |-> IF j = p THEN this_word ELSE IF j < p THEN j + 1 ELSE j]

DICInit ==
    /\ RecIdle
    /\ sel_pc = "loop"
    /\ max_n \in min_n_components..MaxDicN
    /\ words \in UNION {{WordOrder(M, q) : q \in 1..M} : M \in 1..MaxDicWords}
    /\ first_len \in [Range(words) -> 1..MaxDicN]
    /\ \A w \in Range(words) \ {this_word} : first_len[w] >= MaxDicN - 1
    /\ lengths = <<first_len[this_word]>>
    /\ n_features = 1
    /\ oracle = EmptyMap
    /\ i = min_n_components
    /\ hmm_model = Unbound
    /\ best_model = NoModel
    /\ best_num_components = 0
    /\ best_score = NegInf
    /\ result = NoModel
    /\ scores = EmptyMap
    /\ sidx = 0
    /\ this_model_score = 0
    /\ other_model_scores = 0
    /\ m_count = 0
    /\ total_score = 0

\* variant: no outer try, the exception leaves select
DICOnException_Propagates ==
    /\ sel_pc' = "raised"
    /\ scores' = Put(scores, i, DicRec(0, 0, FALSE, TRUE))
    /\ UNCHANGED i

\* except Exception as e: continue   (the next candidate)
DICOnException ==
    /\ sel_pc' = "loop"
    /\ i' = i + 1
    /\ scores' = Put(scores, i, DicRec(0, 0, FALSE, TRUE))

\* head of one iteration over the candidates: skip test, fit and score of this_word
DICIterStart ==
    /\ sel_pc = "loop"
    /\ i \in DICCandidates
    /\ \E o \in SelOutcomes :
         IF i > lengths[1]
         THEN /\ i' = i + 1
              /\ UNCHANGED <<sel_pc, hmm_model, scores, this_model_score,
                             other_model_scores, m_count, sidx>>
         ELSE IF o.kind = "fit_raise"
         THEN /\ DICOnException
              /\ UNCHANGED <<hmm_model, this_model_score, other_model_scores, m_count, sidx>>
         ELSE IF o.kind = "score_raise"
         THEN /\ DICOnException
              /\ hmm_model' = Model(this_word, i)
              /\ UNCHANGED <<this_model_score, other_model_scores, m_count, sidx>>
         ELSE /\ hmm_model' = Model(this_word, i)
              /\ this_model_score' = o.val
              /\ other_model_scores' = 0
              /\ m_count' = 0
              /\ sidx' = 0
              /\ sel_pc' = "others"
              /\ scores' = Put(scores, i, DicRec(0, 0, TRUE, FALSE))
              /\ UNCHANGED i
    /\ UNCHANGED <<best_model, best_score, best_num_components, result>>
    /\ UNCHANGED <<max_n, lengths, n_features, oracle, words, first_len, total_score>>
    /\ UNCHANGED recVars

\* one iteration of: for word in self.words
DICOther ==
    /\ sel_pc = "others"
    /\ sidx < Len(words)
    /\ \E o \in SelOutcomes :
         LET word == words[sidx + 1]
         IN IF word = this_word \/ i > first_len[word]
            THEN /\ sidx' = sidx + 1
                 /\ UNCHANGED <<sel_pc, i, scores, other_model_scores, m_count,
                                best_model, best_score, best_num_components>>
            ELSE IF o.kind = "fit_raise"
            THEN /\ DICOnException
                 /\ UNCHANGED <<sidx, other_model_scores, m_count,
                                best_model, best_score, best_num_components>>
            ELSE LET other_hmm_model_score == IF o.kind = "score_raise" THEN 0 ELSE o.val
                     sum == other_model_scores + other_hmm_model_score
                     m == m_count + 1
                     dic_score == DICScore(this_model_score, sum, m)
                 IN /\ other_model_scores' = sum
                    /\ m_count' = m
                    /\ scores' = Put(scores, i,
                                     DicRec(dic_score, m,
                                            scores[i].clean /\ o.kind = "ok", FALSE))
                    /\ IF dic_score > best_score
                       THEN /\ best_score' = dic_score
                            /\ best_model' = hmm_model
                            /\ best_num_components' = i
                       ELSE UNCHANGED <<best_score, best_model, best_num_components>>
                    /\ sidx' = sidx + 1
                    /\ UNCHANGED <<sel_pc, i>>
    /\ UNCHANGED <<hmm_model, this_model_score, result>>
    /\ UNCHANGED <<max_n, lengths, n_features, oracle, words, first_len, total_score>>
    /\ UNCHANGED recVars

\* the inner loop is exhausted: on to the next candidate
DICOthersEnd ==
    /\ sel_pc = "others"
    /\ sidx = Len(words)
    /\ i' = i + 1
    /\ sel_pc' = "loop"
    /\ UNCHANGED <<hmm_model, best_model, best_score, best_num_components, result, scores,
                   sidx, this_model_score, other_model_scores, m_count>>
    /\ UNCHANGED <<max_n, lengths, n_features, oracle, words, first_len, total_score>>
    /\ UNCHANGED recVars

\* return best_model
DICReturn ==
    /\ sel_pc = "loop"
    /\ i \notin DICCandidates
    /\ result' = best_model
    /\ sel_pc' = "done"
    /\ UNCHANGED <<i, hmm_model, best_model, best_score, best_num_components, scores,
                   sidx, this_model_score, other_model_scores, m_count>>
    /\ UNCHANGED <<max_n, lengths, n_features, oracle, words, first_len, total_score>>
    /\ UNCHANGED recVars

DICNext == DICIterStart \/ DICOther \/ DICOthersEnd \/ DICReturn

SpecDIC == DICInit /\ [][DICNext]_vars

\* -------------------------------------------------------- SelectorDIC: claims

\* candidate n was scored against all M-1 other words, none of them failing
DICFinal(n) ==
    /\ n \in DOMAIN scores
    /\ ~scores[n].aborted
    /\ scores[n].clean
    /\ scores[n].m = Len(words) - 1

\* C4: SelectorDIC.select returns the model of this_word for the n in
\* min_n_components..max_n_components that maximises
\* DIC(n) = logL(this word, n) - (1/(M-1)) * SUM over all M-1 other words;
\* the score that decides is this final DIC(n), not one computed from only
\* some of the other words.
C4_MaxDICReturned ==
    (/\ sel_pc = "done"
     /\ Len(words) >= 2
     /\ \A n \in DICCandidates : DICFinal(n)) =>
        /\ result.word = this_word
        /\ result.n_components \in DICCandidates
        /\ \A n \in DICCandidates : scores[result.n_components].dic >= scores[n].dic

\* C5: whatever fitting and scoring failures occur, SelectorDIC.select does not
\* raise, and it returns None or a fitted model of this_word whose n_components
\* lies in min_n_components..max_n_components.
C5_DICNeverRaises ==
    /\ sel_pc # "raised"
    /\ sel_pc = "done" =>
         \/ result = NoModel
         \/ /\ result.word = this_word
            /\ result.n_components \in min_n_components..max_n

C5_Witness ==
    /\ sel_pc = "done"
    /\ result # NoModel
    /\ \E n \in DOMAIN scores : scores[n].aborted
    /\ \E n \in DOMAIN scores : ~scores[n].aborted /\ ~scores[n].clean


\* ============================================================= SelectorCV
\* num_splits = self.min_n_components
num_splits == min_n_components

\* range(self.min_n_components, self.max_n_components)
CVCandidates == min_n_components..(max_n - 1)

CVInit ==
    /\ RecIdle
    /\ sel_pc = "start"
    /\ max_n \in min_n_components..MaxN
    /\ lengths \in UNION {[1..k -> {MaxFrames}] : k \in 1..MaxSeqs}
    /\ n_features = 1
    /\ oracle = EmptyMap
    /\ i = 0
    /\ hmm_model = Unbound
    /\ best_model = NoModel
    /\ best_num_components = 0
    /\ best_score = 0
    /\ result = NoModel
    /\ scores = EmptyMap
    /\ words = <<this_word>>
    /\ first_len = EmptyMap
    /\ sidx = 0
    /\ this_model_score = 0
    /\ other_model_scores = 0
    /\ m_count = 0
    /\ total_score = 0

\* if len(word_sequences) < num_splits: return None;  else set up the search
CVStart ==
    /\ sel_pc = "start"
    /\ IF Len(lengths) < num_splits
       THEN /\ result' = NoModel
            /\ sel_pc' = "done"
            /\ UNCHANGED <<i, best_model, best_num_components, best_score>>
       ELSE /\ best_model' = NoModel
            /\ best_num_components' = 0
            /\ best_score' = NegInf
            /\ i' = min_n_components
            /\ sel_pc' = "loop"
            /\ UNCHANGED result
    /\ UNCHANGED <<hmm_model, scores, sidx, total_score>>
    /\ UNCHANGED <<max_n, lengths, n_features, oracle, words, first_len,
                   this_model_score, other_model_scores, m_count>>
    /\ UNCHANGED recVars

\* for i in range(..): total_score = 0
CVIterStart ==
    /\ sel_pc = "loop"
    /\ i \in CVCandidates
    /\ total_score' = 0
    /\ sidx' = 0
    /\ sel_pc' = "folds"
    /\ UNCHANGED <<i, hmm_model, best_model, best_score, best_num_components, result, scores>>
    /\ UNCHANGED <<max_n, lengths, n_features, oracle, words, first_len,
                   this_model_score, other_model_scores, m_count>>
    /\ UNCHANGED recVars

\* one fold: try: fit, score, accumulate   except Exception: continue
CVFold ==
    /\ sel_pc = "folds"
    /\ sidx < num_splits
    /\ \E o \in SelOutcomes :
         IF o.kind = "fit_raise"
         THEN UNCHANGED <<hmm_model, total_score>>
         ELSE IF o.kind = "score_raise"
         THEN /\ hmm_model' = Model(this_word, i)
              /\ UNCHANGED total_score
         ELSE /\ hmm_model' = Model(this_word, i)
              /\ total_score' = total_score + o.val
    /\ sidx' = sidx + 1
    /\ UNCHANGED <<sel_pc, i, best_model, best_score, best_num_components, result, scores>>
    /\ UNCHANGED <<max_n, lengths, n_features, oracle, words, first_len,
                   this_model_score, other_model_scores, m_count>>
    /\ UNCHANGED recVars

\* avg_score = total_score / num_splits; if avg_score > best_score: ...
\* (reading hmm_model before any fit assigned it raises UnboundLocalError)
CVIterEnd ==
    /\ sel_pc = "folds"
    /\ sidx = num_splits
    /\ LET avg_score == total_score \div num_splits
       IN /\ scores' = Put(scores, i, avg_score)
          /\ IF avg_score > best_score
             THEN IF hmm_model = Unbound
                  THEN /\ sel_pc' = "raised"
                       /\ best_score' = avg_score
                       /\ UNCHANGED <<i, best_model, best_num_components>>
                  ELSE /\ best_score' = avg_score
                       /\ best_model' = hmm_model
                       /\ best_num_components' = i
                       /\ i' = i + 1
                       /\ sel_pc' = "loop"
             ELSE /\ i' = i + 1
                  /\ sel_pc' = "loop"
                  /\ UNCHANGED <<best_score, best_model, best_num_components>>
    /\ UNCHANGED <<hmm_model, result, sidx, total_score>>
    /\ UNCHANGED <<max_n, lengths, n_features, oracle, words, first_len,
                   this_model_score, other_model_scores, m_count>>
    /\ UNCHANGED recVars

\* return best_model
CVReturn ==
    /\ sel_pc = "loop"
    /\ i \notin CVCandidates
    /\ result' = best_model
    /\ sel_pc' = "done"
    /\ UNCHANGED <<i, hmm_model, best_model, best_score, best_num_components, scores,
                   sidx, total_score>>
    /\ UNCHANGED <<max_n, lengths, n_features, oracle, words, first_len,
                   this_model_score, other_model_scores, m_count>>
    /\ UNCHANGED recVars

CVNext == CVStart \/ CVIterStart \/ CVFold \/ CVIterEnd \/ CVReturn

SpecCV == CVInit /\ [][CVNext]_vars

\* --------------------------------------------------------- SelectorCV: claims

\* C8: whatever per-fold fitting and scoring failures occur, SelectorCV.select
\* does not raise and returns None or a fitted model; it never reads a model
\* variable that no successful fit assigned, and never returns a model left
\* over from a candidate n other than the one whose score selected it.
C8_CVNeverRaises ==
    /\ sel_pc # "raised"
    /\ sel_pc = "done" =>
         \/ result = NoModel
         \/ /\ result.word = this_word
            /\ result.n_components = best_num_components

====
